---- MODULE Spec2Model ----
(***************************************************************************)
(* CycleGraph core: power decomposition (physics.rs), altitude smoothing   *)
(* (smoothing.rs), wind geometry (models.rs) and Crr calibration           *)
(* (calibration.rs).                                                       *)
(*                                                                         *)
(* The Rust code works on f64.  The model is fixed-point over integers:    *)
(*   time            ms          speed, wind     cm/s                      *)
(*   altitude        mm          slope           1e-4                      *)
(*   mass            kg          Crr             1e-4                      *)
(*   CdA             1e-3 m^2    air density     1e-3 kg/m^3               *)
(*   power, MAE      mW          angles          degrees                   *)
(* Every product is divided back to its unit right after it is formed,     *)
(* truncating toward zero, so that no intermediate leaves 32 bits.         *)
(* Option<T> is a sequence: <<>> is None and <<x>> is Some(x).             *)
(* A non-finite f64 (NaN) is the value NAN.                                *)
(* calls is the history of the calls made so far: which function, the      *)
(* weather and sample index it was given, and what it returned.            *)
(***************************************************************************)
EXTENDS Integers, Sequences, FiniteSets, TLC

VARIABLES pc, samples, measured, profile, weather, out, result, calls

vars == <<pc, samples, measured, profile, weather, out, result, calls>>

----------------------------------------------------------------------------
(* Option<T> and f64 helpers *)

None == <<>>

Some(x) == <<x>>

IsSome(o) == o # <<>>

UnwrapOr(o, d) == IF o = <<>> THEN d ELSE o[1]

NAN == -999999999

IsFinite(x) == x # NAN

Abs(x) == IF x < 0 THEN -x ELSE x

Max(a, b) == IF a >= b THEN a ELSE b

Min(a, b) == IF a <= b THEN a ELSE b

\* f64 division, truncated toward zero at the unit of the result
Quot(a, b) == IF a >= 0 THEN a \div b ELSE -((-a) \div b)

Clamp(x, lo, hi) == IF x < lo THEN lo ELSE IF x > hi THEN hi ELSE x

\* a Vec of n elements, each element evaluated once
Vec(f, n) == SubSeq(f, 1, n)

----------------------------------------------------------------------------
(* physics.rs constants *)

G == 980665

RHO == 1225

----------------------------------------------------------------------------
(* models.rs *)

\* cos of a whole angle in [0, 360), in 1e-3; the inputs use multiples of
\* 60 and 90 degrees only, where the cosine is rational
CosMilli(deg) ==
    CASE deg = 0 -> 1000
      [] deg = 60 -> 500
      [] deg = 90 -> 0
      [] deg = 120 -> -500
      [] deg = 180 -> -1000
      [] deg = 240 -> -500
      [] deg = 270 -> 0
      [] deg = 300 -> 500

\* the opposite sign convention: positive = tailwind
headwind_component_tail(w, heading_deg) ==
    LET rel_angle == (heading_deg - w.wind_dir_deg) % 360
    IN  -Quot(w.wind_ms * CosMilli(rel_angle), 1000)

\* Weather::headwind_component (models.rs:150-155)
headwind_component(w, heading_deg) ==
    LET rel_angle == (heading_deg - w.wind_dir_deg) % 360
    IN  Quot(w.wind_ms * CosMilli(rel_angle), 1000)

\* Sample::heading_to, for fixes on one meridian or on the equator, where the
\* great-circle initial bearing is a cardinal direction
heading_to(s, next) ==
    IF s.latitude = None \/ s.longitude = None
       \/ next.latitude = None \/ next.longitude = None
    THEN None
    ELSE LET lat1 == s.latitude[1]
             lon1 == s.longitude[1]
             lat2 == next.latitude[1]
             lon2 == next.longitude[1]
         IN  CASE lon1 = lon2 /\ lat2 >= lat1 -> Some(0)
               [] lon1 = lon2 /\ lat2 < lat1 -> Some(180)
               [] lon1 # lon2 /\ lat1 = 0 /\ lat2 = 0 /\ lon2 > lon1 -> Some(90)
               [] lon1 # lon2 /\ lat1 = 0 /\ lat2 = 0 /\ lon2 < lon1 -> Some(270)

----------------------------------------------------------------------------
(* smoothing.rs *)

\* the middle element of a sorted 3-window
Median3(a, b, c) ==
    IF a <= b
    THEN (IF b <= c THEN b ELSE IF a <= c THEN c ELSE a)
    ELSE (IF a <= c THEN a ELSE IF b <= c THEN c ELSE b)

\* win.sort_by(|x, y| x.partial_cmp(y).unwrap()) panics when a comparison
\* meets a NaN; a slice of three is sorted by insertion, which compares
\* elements of the window, so a NaN in the window is always met
smooth_panics(ss) ==
    \E i \in 1..Len(ss) : ss[i].altitude_m = NAN

\* the window padded with 0 at both edges instead of the boundary value
smooth_altitude_zero_padded(ss) ==
    LET n == Len(ss)
    IN  Vec([i \in 1..n |->
                LET a0 == IF i > 1 THEN ss[i - 1].altitude_m ELSE 0
                    a1 == ss[i].altitude_m
                    a2 == IF i + 1 <= n THEN ss[i + 1].altitude_m ELSE 0
                IN  Median3(a0, a1, a2)], n)

smooth_altitude(ss) ==
    LET n == Len(ss)
    IN  Vec([i \in 1..n |->
                LET a0 == IF i > 1 THEN ss[i - 1].altitude_m ELSE ss[i].altitude_m
                    a1 == ss[i].altitude_m
                    a2 == IF i + 1 <= n THEN ss[i + 1].altitude_m ELSE ss[i].altitude_m
                IN  Median3(a0, a1, a2)], n)

\* a call of smooth_altitude: the smoothed series, or the panic
smooth_altitude_call(ss) ==
    IF smooth_panics(ss) THEN [panicked |-> TRUE, alt |-> <<>>]
    ELSE [panicked |-> FALSE, alt |-> smooth_altitude(ss)]

----------------------------------------------------------------------------
(* physics.rs *)

ToLower(s) ==
    CASE s = "TT" -> "tt"
      [] s = "MTB" -> "mtb"
      [] OTHER -> s

cda_for(bike_type) ==
    LET b == ToLower(UnwrapOr(bike_type, "road"))
    IN  IF b \in {"tt", "tri"} THEN 250
        ELSE IF b \in {"mtb", "gravel"} THEN 400
        ELSE 300

\* air_density (physics.rs:85-89): ideal gas, temperature in whole degrees C,
\* pressure in whole hPa, result in 1e-3 kg/m^3; no caller in physics.rs
air_density(air_temp_c, air_pressure_hpa) ==
    LET p_pa == Max(air_pressure_hpa * 100, 1)
        t_ck == Max(air_temp_c * 100 + 27315, 15000)
    IN  Clamp(Quot(p_pa * 1000, Quot(28705 * t_ck, 10000)), 900, 1400)

\* weight force mass * G in mN
WeightForce(mass) == Quot(mass * G, 100)

\* the drag force 0.5 * rho * cda * v^2 returned in place of the power
drag_watt_force(rho, cda, v_rel_ms) ==
    LET v == Max(v_rel_ms, 0)
    IN  Max(Quot(Quot(v * v * cda, 1000) * rho, 2000) * 10, 0)

drag_watt(rho, cda, v_rel_ms) ==
    LET v == Max(v_rel_ms, 0)
        q == Quot(Quot(v * v * cda, 1000) * rho, 2000)
    IN  Max(Quot(Quot(q, 10) * v, 100), 0)

rolling_watt(crr, mass_kg, v_ms) ==
    LET v == Max(v_ms, 0)
        f == Quot(WeightForce(mass_kg) * crr, 100)
    IN  Max(Quot(f * v, 10000), 0)

\* the difference left unclamped
RelAirspeedSigned(v_mid, wind_rel) == v_mid - wind_rel

\* the wind component added to the ground speed
RelAirspeedAdd(v_mid, wind_rel) == Max(v_mid + wind_rel, 0)

\* v_rel of compute_power_with_wind (physics.rs:169)
RelAirspeed(v_mid, wind_rel) == Max(v_mid - wind_rel, 0)

\* the heading used for index i (physics.rs:165-166)
HeadingAt(ss, i) ==
    UnwrapOr(IF i + 1 <= Len(ss) THEN heading_to(ss[i], ss[i + 1]) ELSE None, 0)

\* v_prev and v_mid for index i (physics.rs:151-159)
VPrevAt(ss, i) == IF i = 1 THEN Max(ss[i].v_ms, 0) ELSE Max(ss[i - 1].v_ms, 0)

VMidAt(ss, i) == (Max(ss[i].v_ms, 0) + VPrevAt(ss, i)) \div 2

\* mass * G * v_mid * slope before its clamp (physics.rs:173)
gravity_raw(mass, v_mid, slope) ==
    Quot(Quot(WeightForce(mass) * v_mid, 10000) * slope, 100)

\* mass * a * v_mid before its clamp (physics.rs:174); a in mm/s^2
accel_raw(mass, a, v_mid) == mass * Quot(a * v_mid, 100)

\* the signed energy balance: no clamp on gravity, acceleration or the sum
SumPowerSigned(p_roll, p_aero, g_raw, a_raw) ==
    [power |-> p_roll + p_aero + g_raw + a_raw, p_grav |-> g_raw, p_acc |-> a_raw]

\* only the total clamped: descents and braking are credited back
SumPowerTotalClamp(p_roll, p_aero, g_raw, a_raw) ==
    [power |-> Max(p_roll + p_aero + g_raw + a_raw, 0),
     p_grav |-> Max(g_raw, 0), p_acc |-> Max(a_raw, 0)]

\* physics.rs:173-177: the two clamps, the sum and the value pushed to
\* power_out (the sum of fixed-point terms is always finite)
SumPower(p_roll, p_aero, g_raw, a_raw) ==
    LET p_grav == Max(g_raw, 0)
        p_acc == Max(a_raw, 0)
        p == p_roll + p_aero + p_grav + p_acc
    IN  [power |-> Max(p, 0), p_grav |-> p_grav, p_acc |-> p_acc]

\* the body of the loop of compute_power_with_wind for index i (1-based);
\* alt is the smoothed altitude series
PowerStep(ss, alt, mass, crr, cda, w, i) ==
    LET n == Len(ss)
        s == ss[i]
        dt == IF i = 1 THEN 1000 ELSE Max(Abs(s.t - ss[i - 1].t), 1)
        v_prev == VPrevAt(ss, i)
        alt_prev == IF i = 1 THEN alt[1] ELSE alt[i - 1]
        v == Max(s.v_ms, 0)
        v_mid == VMidAt(ss, i)
        a == Quot((v - v_prev) * 10000, dt)
        ds == Max((v_mid * dt) \div 100, 1)
        slope == IF i = 1 THEN 0
                 ELSE Clamp(Quot((alt[i] - alt_prev) * 10000, ds), -3000, 3000)
        heading_deg == HeadingAt(ss, i)
        wind_rel == headwind_component(w, heading_deg)
        v_rel == RelAirspeed(v_mid, wind_rel)
        p_roll == rolling_watt(crr, mass, v_mid)
        p_aero == drag_watt(RHO, cda, v_rel)
        sum == SumPower(p_roll, p_aero, gravity_raw(mass, v_mid, slope),
                        accel_raw(mass, a, v_mid))
    IN  [power |-> sum.power, wind_rel |-> wind_rel, v_rel |-> v_rel,
         v_mid |-> v_mid, heading_deg |-> heading_deg,
         p_roll |-> p_roll, p_aero |-> p_aero,
         p_grav |-> sum.p_grav, p_acc |-> sum.p_acc]

\* a loop that stops one short on v_rel
CollectOutputsShort(st, n) ==
    [panicked |-> FALSE,
     power |-> [i \in 1..n |-> st[i].power],
     wind_rel |-> [i \in 1..n |-> st[i].wind_rel],
     v_rel |-> [i \in 1..(n - 1) |-> st[i].v_rel]]

\* the three vectors pushed in the loop and returned (physics.rs:177-182)
CollectOutputs(st, n) ==
    [panicked |-> FALSE,
     power |-> [i \in 1..n |-> st[i].power],
     wind_rel |-> [i \in 1..n |-> st[i].wind_rel],
     v_rel |-> [i \in 1..n |-> st[i].v_rel]]

\* PowerOutputs, with the panic of smooth_altitude as an outcome
compute_power_with_wind(ss, p, w) ==
    LET n == Len(ss)
        mass == UnwrapOr(p.total_weight, 75)
        crr == UnwrapOr(p.crr, 50)
        cda == IF p.cda # None THEN p.cda[1] ELSE cda_for(p.bike_type)
    IN  IF n = 0
        THEN [panicked |-> FALSE, power |-> <<>>, wind_rel |-> <<>>, v_rel |-> <<>>]
        ELSE IF smooth_panics(ss)
        THEN [panicked |-> TRUE, power |-> <<>>, wind_rel |-> <<>>, v_rel |-> <<>>]
        ELSE LET alt == smooth_altitude(ss)
                 st == Vec([i \in 1..n |-> PowerStep(ss, alt, mass, crr, cda, w, i)], n)
             IN  CollectOutputs(st, n)

\* physics.rs:186-188
compute_power(ss, p, w) == compute_power_with_wind(ss, p, w).power

\* device_watts clamped at 0 before it is passed through
compute_indoor_power_clamped(sample, p) ==
    IF sample.device_watts # None THEN Max(sample.device_watts[1], 0)
    ELSE LET v == Max(sample.v_ms, 0)
             cda == IF p.cda # None THEN p.cda[1] ELSE cda_for(p.bike_type)
         IN  Max(drag_watt(RHO, cda, v)
                 + rolling_watt(UnwrapOr(p.crr, 40), UnwrapOr(p.total_weight, 75), v), 0)

\* physics.rs:191-202
compute_indoor_power(sample, p) ==
    IF sample.device_watts # None THEN sample.device_watts[1]
    ELSE LET v == Max(sample.v_ms, 0)
             cda == IF p.cda # None THEN p.cda[1] ELSE cda_for(p.bike_type)
             crr == UnwrapOr(p.crr, 40)
             mass == UnwrapOr(p.total_weight, 75)
             p_aero == drag_watt(RHO, cda, v)
             p_roll == rolling_watt(crr, mass, v)
         IN  Max(p_aero + p_roll, 0)

----------------------------------------------------------------------------
(* calibration.rs *)

MinSegment == 300

INFINITY == 2147483647

RECURSIVE SumRange(_, _, _)
\* q[lo] + ... + q[hi], summed by halves to keep the evaluation shallow
SumRange(q, lo, hi) ==
    IF lo > hi THEN 0
    ELSE IF lo = hi THEN q[lo]
    ELSE LET mid == (lo + hi) \div 2
         IN  SumRange(q, lo, mid) + SumRange(q, mid + 1, hi)

\* iter().sum() of a series
SumSeq(q, k) == SumRange(q, 1, k)

SetMax(S) == CHOOSE x \in S : \A y \in S : y <= x

SetMin(S) == CHOOSE x \in S : \A y \in S : x <= y

profile_crr(p) == UnwrapOr(p.crr, 50)

profile_cda(p) == UnwrapOr(p.cda, 300)

\* a flatness test that accepts a range of exactly 0.5 m
is_indoor_session_le(ss) ==
    LET no_gps == \A i \in 1..Len(ss) :
                      ss[i].latitude = None /\ ss[i].longitude = None
        alts == {ss[i].altitude_m : i \in 1..Len(ss)} \ {NAN}
    IN  no_gps /\ (Len(ss) < 2 \/ (alts # {} /\ Abs(SetMax(alts) - SetMin(alts)) <= 500))

\* min_a and max_a skip a NaN altitude (both comparisons with it are false);
\* with no finite altitude the range is infinite
is_indoor_session(ss) ==
    LET no_gps == \A i \in 1..Len(ss) :
                      ss[i].latitude = None /\ ss[i].longitude = None
        alts == {ss[i].altitude_m : i \in 1..Len(ss)} \ {NAN}
        flat_altitude ==
            IF Len(ss) < 2 THEN TRUE
            ELSE IF alts = {} THEN FALSE
            ELSE Abs(SetMax(alts) - SetMin(alts)) < 500
    IN  no_gps /\ flat_altitude

Rejected(p, why) ==
    [panicked |-> FALSE, cda |-> profile_cda(p), crr |-> profile_crr(p),
     mae |-> 0, calibrated |-> FALSE, reason |-> Some(why)]

\* the length check made before the segment-size check
RejectReasonSwapped(ss, mp) ==
    IF Len(mp) # Len(ss) THEN Some("length_mismatch_model_vs_measured")
    ELSE IF Len(ss) < MinSegment THEN Some("insufficient_segment")
    ELSE IF \E i \in 1..Len(mp) : ~IsFinite(mp[i]) THEN Some("non_finite_measured_power")
    ELSE IF is_indoor_session(ss) THEN Some("indoor_session")
    ELSE None

\* the first rejection rule that matches, None when the grid search runs
\* (calibration.rs:65-103)
RejectReason(ss, mp) ==
    IF Len(ss) < MinSegment THEN Some("insufficient_segment")
    ELSE IF Len(mp) # Len(ss) THEN Some("length_mismatch_model_vs_measured")
    ELSE IF \E i \in 1..Len(mp) : ~IsFinite(mp[i]) THEN Some("non_finite_measured_power")
    ELSE IF is_indoor_session(ss) THEN Some("indoor_session")
    ELSE None

\* the Crr grid (3..=8).map(|x| x as f64 / 1000.0), in iteration order
CrrGrid == <<30, 40, 50, 60, 70, 80>>

\* the temporary profile of one candidate (calibration.rs:114-116)
CandidateProfile(p, fixed_cda, crr) ==
    [p EXCEPT !.crr = Some(crr), !.cda = Some(fixed_cda)]

\* MAE of one candidate against the measured series (calibration.rs:133-145);
\* model_w and mp have the same length, n counts the finite pairs
MaeOf(model_w, mp) ==
    LET fin == {i \in 1..Len(mp) : IsFinite(model_w[i]) /\ IsFinite(mp[i])}
        err == Vec([i \in 1..Len(mp) |->
                       IF i \in fin THEN Abs(model_w[i] - mp[i]) ELSE 0], Len(mp))
        n == Cardinality(fin)
    IN  [n |-> n, mae |-> IF n = 0 THEN 0 ELSE Quot(SumSeq(err, Len(mp)), n)]

\* the comparison turned around
KeepWorst(best, crr, m) ==
    IF m.n = 0 THEN best
    ELSE IF m.mae > best.mae THEN [best EXCEPT !.crr = crr, !.mae = m.mae]
    ELSE best

\* a candidate kept when its MAE is lower or equal
KeepBestOrEqual(best, crr, m) ==
    IF m.n = 0 THEN best
    ELSE IF m.mae <= best.mae THEN [best EXCEPT !.crr = crr, !.mae = m.mae]
    ELSE best

\* one iteration of the grid loop: keep the candidate when its MAE is
\* strictly lower (calibration.rs:141-149)
KeepBest(best, crr, m) ==
    IF m.n = 0 THEN best
    ELSE IF m.mae < best.mae THEN [best EXCEPT !.crr = crr, !.mae = m.mae]
    ELSE best

RECURSIVE GridSearch(_, _, _, _, _, _)
\* the best (crr, mae) after the first k candidates (calibration.rs:109-150)
GridSearch(ss, mp, p, w, fixed_cda, k) ==
    IF k = 0 THEN [crr |-> profile_crr(p), mae |-> INFINITY, mismatch |-> FALSE]
    ELSE LET best == GridSearch(ss, mp, p, w, fixed_cda, k - 1)
             crr == CrrGrid[k]
             model_w == compute_power(ss, CandidateProfile(p, fixed_cda, crr), w)
         IN  IF best.mismatch THEN best
             ELSE IF Len(model_w) # Len(mp) THEN [best EXCEPT !.mismatch = TRUE]
             ELSE KeepBest(best, crr, MaeOf(model_w, mp))

\* avg_measured and the 10 % threshold (calibration.rs:153-155)
AvgMeasured(mp) == Quot(SumSeq(mp, Len(mp)), Len(mp))

\* a threshold that accepts a MAE of exactly 10 %
AcceptLe(best_mae, avg_measured) ==
    best_mae # INFINITY /\ 10 * best_mae <= avg_measured

\* best_mae < 0.10 * avg_measured; an infinite MAE is below nothing
Accept(best_mae, avg_measured) ==
    best_mae # INFINITY /\ 10 * best_mae < avg_measured

fit_cda_crr(ss, mp, p, w) ==
    LET why == RejectReason(ss, mp)
        fixed_cda == profile_cda(p)
    IN  IF why # None THEN Rejected(p, why[1])
        ELSE IF smooth_panics(ss)
        THEN [panicked |-> TRUE, cda |-> 0, crr |-> 0, mae |-> 0,
              calibrated |-> FALSE, reason |-> None]
        ELSE LET best == GridSearch(ss, mp, p, w, fixed_cda, Len(CrrGrid))
             IN  IF best.mismatch
                 THEN Rejected(p, "length_mismatch_model_vs_measured")
                 ELSE
                 [panicked |-> FALSE, cda |-> fixed_cda, crr |-> best.crr,
                  mae |-> best.mae,
                  calibrated |-> Accept(best.mae, AvgMeasured(mp)),
                  reason |-> None]

\* the MAE of every grid candidate, by position in CrrGrid
\* (calibration.rs:112-145)
GridMaes(ss, mp, p, w, fixed_cda) ==
    Vec([k \in 1..Len(CrrGrid) |->
            MaeOf(compute_power(ss, CandidateProfile(p, fixed_cda, CrrGrid[k]), w),
                  mp)], Len(CrrGrid))

RECURSIVE GridScan(_, _, _, _)
\* the loop of calibration.rs:112-150 taking the candidates in the order
\* given: the best after the first k of them
GridScan(order, maes, p, k) ==
    IF k = 0 THEN [crr |-> profile_crr(p), mae |-> INFINITY, mismatch |-> FALSE]
    ELSE KeepBest(GridScan(order, maes, p, k - 1),
                  CrrGrid[order[k]], maes[order[k]])

\* (crr, mae, calibrated) of the grid search run in the order given
\* (calibration.rs:108-163)
GridOutcome(order, maes, avg_measured, p) ==
    LET best == GridScan(order, maes, p, Len(order))
    IN  [crr |-> best.crr, mae |-> best.mae,
         calibrated |-> Accept(best.mae, avg_measured)]

\* every order of the six candidates
GridOrders == Permutations(1..Len(CrrGrid))

----------------------------------------------------------------------------
(* Inputs of the decomposition: short series over a small set of samples *)

MaxLen == 2

MkSample(t, v, alt, lat, lon) ==
    [t |-> t, v_ms |-> v, altitude_m |-> alt, heading_deg |-> 0,
     moving |-> TRUE, device_watts |-> None, latitude |-> lat, longitude |-> lon]

\* (latitude, longitude) of a sample: no fix, or a fix on the 0 meridian
GpsFixes == {<<None, None>>, <<Some(0), Some(0)>>, <<Some(1), Some(0)>>}

ShortSamples ==
    {MkSample(t, v, alt, g[1], g[2]) :
        t \in {0, 1000}, v \in {-300, 600}, alt \in {0, 2000}, g \in GpsFixes}

RECURSIVE SeqsUpTo(_, _)
SeqsUpTo(S, n) ==
    IF n = 0 THEN {<<>>}
    ELSE LET shorter == SeqsUpTo(S, n - 1)
         IN  shorter \cup {Append(q, x) : q \in {r \in shorter : Len(r) = n - 1}, x \in S}

MkProfile(tw, bt, crr, cda) ==
    [total_weight |-> tw, bike_type |-> bt, crr |-> crr, cda |-> cda,
     calibrated |-> FALSE, calibration_mae |-> None, estimat |-> TRUE]

\* Profile::default() (models.rs:49-61)
DefaultProfile == MkProfile(None, None, None, None)

PowerProfiles == {DefaultProfile, MkProfile(Some(80), Some("TT"), Some(40), None)}

MkWeather(ws, wd) ==
    [wind_ms |-> ws, wind_dir_deg |-> wd, air_temp_c |-> 15, air_pressure_hpa |-> 1013]

PowerWeathers == {MkWeather(ws, wd) : ws \in {0, 300}, wd \in {0, 180}}

NoOutputs == [panicked |-> FALSE, power |-> <<>>, wind_rel |-> <<>>, v_rel |-> <<>>]

NoResult == [panicked |-> FALSE, cda |-> 0, crr |-> 0, mae |-> 0,
             calibrated |-> FALSE, reason |-> None]

InitPower ==
    /\ pc = "ready"
    /\ samples \in SeqsUpTo(ShortSamples, MaxLen)
    /\ profile \in PowerProfiles
    /\ weather \in PowerWeathers
    /\ measured = <<>>
    /\ out = NoOutputs
    /\ result = NoResult
    /\ calls = <<>>

\* a call of compute_power_with_wind
ComputePowerWithWind ==
    /\ pc = "ready"
    /\ out' = compute_power_with_wind(samples, profile, weather)
    /\ pc' = "with_wind_done"
    /\ UNCHANGED <<samples, measured, profile, weather, result, calls>>

\* a call of compute_power, which keeps the power vector only
ComputePower ==
    /\ pc = "ready"
    /\ out' = [NoOutputs EXCEPT !.power = compute_power(samples, profile, weather)]
    /\ pc' = "power_done"
    /\ UNCHANGED <<samples, measured, profile, weather, result, calls>>

NextPower == ComputePowerWithWind \/ ComputePower

SpecPower == InitPower /\ [][NextPower]_vars

----------------------------------------------------------------------------
(* Inputs of the calibration: 1 Hz segments around the 300-sample minimum *)

\* speed of the k-th sample (k from 0), cm/s
SpeedAt(sp, k) ==
    CASE sp = "ramp" -> 600 + 2 * k
      [] sp = "cruise" -> 1000
      [] sp = "sprint" -> 600 + 10 * k

\* altitude of the k-th sample, mm
AltAt(ap, k) ==
    CASE ap = "climb" -> 100000 + 500 * k
      [] ap = "flat" -> 100000
      [] ap = "ripple" -> 100000 + 499 * (k % 2)
      [] ap = "step" -> IF k = 150 THEN 100500 ELSE 100000
      [] ap = "nan" -> IF k = 150 THEN NAN ELSE 100000 + 500 * k

LatAt(gp, k) ==
    CASE gp = "none" -> None
      [] gp = "north" -> Some(k)
      [] gp = "lat_only" -> IF k = 7 THEN Some(0) ELSE None

LonAt(gp, k) ==
    CASE gp = "none" -> None
      [] gp = "north" -> Some(0)
      [] gp = "lat_only" -> None

Segment(n, sp, ap, gp) ==
    [i \in 1..n |->
        MkSample((i - 1) * 1000, SpeedAt(sp, i - 1), AltAt(ap, i - 1),
                 LatAt(gp, i - 1), LonAt(gp, i - 1))]

\* the sawtooth of +-1.5 W on the k-th value (k from 0)
Noise(k) == IF k % 2 = 0 THEN 1500 ELSE -1500

\* the model's own power at ground-truth Crr gt, plus the sawtooth
NoisyModel(ss, p, w, gt) ==
    LET truth == compute_power(ss, [p EXCEPT !.crr = Some(gt)], w)
    IN  [i \in 1..Len(ss) |-> truth[i] + Noise(i - 1)]

\* a measured-power series for segment ss
MeasuredOf(kind, ss, p, w) ==
    CASE kind[1] = "const" -> [i \in 1..Len(ss) |-> kind[2]]
      [] kind[1] = "short" -> [i \in 1..(Len(ss) - 10) |-> kind[2]]
      [] kind[1] = "nan" -> [i \in 1..Len(ss) |-> IF i = kind[2] THEN NAN ELSE 200000]
      [] kind[1] = "noisy" -> NoisyModel(ss, p, w, kind[2])

SegLens == {50, 299, 300}

SpeedPatterns == {"ramp", "cruise"}

AltPatterns == {"climb", "flat", "ripple", "step"}

GpsPatterns == {"none", "north", "lat_only"}

MeasuredKinds ==
    {<<"const", 0>>, <<"const", 310050>>, <<"short", 250000>>, <<"nan", 5>>,
     <<"noisy", 55>>}

CalibProfiles == {DefaultProfile, MkProfile(Some(80), Some("tt"), Some(120), None)}

CalibWeathers == {MkWeather(200, 180)}

InitCalibOver(alts) ==
    /\ pc = "ready"
    /\ profile \in CalibProfiles
    /\ weather \in CalibWeathers
    /\ \E n \in SegLens, sp \in SpeedPatterns, ap \in alts, gp \in GpsPatterns :
          samples = Segment(n, sp, ap, gp)
    /\ \E kind \in MeasuredKinds :
          \* a series taken from compute_power exists only when that call returned
          /\ kind[1] = "noisy" => ~smooth_panics(samples)
          /\ measured = MeasuredOf(kind, samples, profile, weather)
    /\ out = NoOutputs
    /\ result = NoResult
    /\ calls = <<>>

InitCalib == InitCalibOver(AltPatterns)

\* a call of fit_cda_crr
FitCdaCrr ==
    /\ pc = "ready"
    /\ result' = fit_cda_crr(samples, measured, profile, weather)
    /\ pc' = "fit_done"
    /\ UNCHANGED <<samples, measured, profile, weather, out, calls>>

NextCalib == FitCdaCrr

SpecCalib == InitCalib /\ [][NextCalib]_vars

\* the same calls on segments that may hold a NaN altitude
InitCalibNaN == InitCalibOver({"flat", "nan"})

SpecCalibNaN == InitCalibNaN /\ [][NextCalib]_vars

----------------------------------------------------------------------------
(* Repeated calls of the four functions on one set of inputs *)

MaxCalls == 3

\* what a call of function op returns for its arguments
Dispatch(op, ss, mp, p, w, i) ==
    CASE op = "smooth_altitude" -> smooth_altitude_call(ss)
      [] op = "compute_indoor_power" ->
            [panicked |-> FALSE, watts |-> compute_indoor_power(ss[i], p)]
      [] op = "compute_power_with_wind" -> compute_power_with_wind(ss, p, w)
      [] op = "fit_cda_crr" -> fit_cda_crr(ss, mp, p, w)

\* output vectors kept from the previous call of compute_power_with_wind and
\* pushed to without being cleared
InvokeReusedBuffers(log, op, ss, mp, p, w, i) ==
    LET fresh == Dispatch(op, ss, mp, p, w, i)
        earlier == {k \in 1..Len(log) : log[k].op = op}
    IN  IF op = "compute_power_with_wind" /\ earlier # {} /\ ~fresh.panicked
        THEN LET prev == log[CHOOSE k \in earlier : \A j \in earlier : j <= k].ret
             IN  [panicked |-> FALSE,
                  power |-> prev.power \o fresh.power,
                  wind_rel |-> prev.wind_rel \o fresh.wind_rel,
                  v_rel |-> prev.v_rel \o fresh.v_rel]
        ELSE fresh

\* a call made after the calls of log: the four functions read their
\* arguments only and allocate their outputs afresh (physics.rs:144-146,
\* smoothing.rs:10, calibration.rs:109-110), so log is not consulted
Invoke(log, op, ss, mp, p, w, i) == Dispatch(op, ss, mp, p, w, i)

\* the record of one call
Entry(op, w, i) ==
    [op |-> op, w |-> w, i |-> i,
     ret |-> Invoke(calls, op, samples, measured, profile, w, i)]

\* the k-th sample of a call series: 1 Hz, no GPS
CallSample(k, v, alt, dw) ==
    [MkSample(k * 1000, v, alt, None, None) EXCEPT !.device_watts = dw]

\* altitude series: empty, single, constant, the outlier of the smoothing
\* test, a spike between equal neighbours, a zigzag and a descent
AltShapes ==
    {<<>>, <<100000>>, <<0, 0, 0>>, <<100000, 200000, 102000>>,
     <<5000, 5000, 9000, 5000, 5000>>, <<1000, 3000, 2000, 4000>>, <<3000, 1000>>}

NaNAltShapes == {<<0, 0, 0>>, <<1000, NAN, 2000>>, <<NAN>>}

DeviceWatts == {None, Some(210000), Some(-5000)}

\* every shape ridden at 10 m/s without a power meter, the shapes of three
\* samples ridden at 7 m/s with each device_watts, and one full segment
CallSeries(shapes) ==
    {Vec([i \in 1..Len(a) |-> CallSample(i - 1, 1000, a[i], None)], Len(a)) :
        a \in shapes}
    \cup {Vec([i \in 1..Len(a) |-> CallSample(i - 1, 700, a[i], dw)], Len(a)) :
              a \in {b \in shapes : Len(b) = 3}, dw \in DeviceWatts}
    \cup {Vec(Segment(300, "ramp", "climb", "none"), 300)}

\* Profile::default() and the profile of test_indoor_power_without_device_watts
CallProfiles == {DefaultProfile, MkProfile(Some(75), None, Some(40), Some(235))}

\* the weather of a call: the session's, or the same without wind
CallWeathers == {weather, [weather EXCEPT !.wind_ms = 0]}

InitCallsOver(shapes) ==
    /\ pc = "calls"
    /\ samples \in CallSeries(shapes)
    /\ profile \in CallProfiles
    \* the full segment is ridden with the default profile only
    /\ Len(samples) >= MinSegment => profile = DefaultProfile
    /\ weather = MkWeather(200, 180)
    /\ measured = Vec([i \in 1..Len(samples) |-> 310050], Len(samples))
    /\ out = NoOutputs
    /\ result = NoResult
    /\ calls = <<>>

InitCalls == InitCallsOver(AltShapes)

CallSmoothAltitude ==
    /\ pc = "calls"
    /\ Len(calls) < MaxCalls
    /\ calls' = Append(calls, Entry("smooth_altitude", weather, 0))
    /\ UNCHANGED <<pc, samples, measured, profile, weather, out, result>>

\* the first or the last sample of the series
CallComputeIndoorPower ==
    /\ pc = "calls"
    /\ Len(calls) < MaxCalls
    /\ \E i \in {1, Len(samples)} \cap (1..Len(samples)) :
          calls' = Append(calls, Entry("compute_indoor_power", weather, i))
    /\ UNCHANGED <<pc, samples, measured, profile, weather, out, result>>

CallComputePowerWithWind ==
    /\ pc = "calls"
    /\ Len(calls) < MaxCalls
    /\ \E w \in CallWeathers :
          calls' = Append(calls, Entry("compute_power_with_wind", w, 0))
    /\ UNCHANGED <<pc, samples, measured, profile, weather, out, result>>

CallFitCdaCrr ==
    /\ pc = "calls"
    /\ Len(calls) < MaxCalls
    /\ calls' = Append(calls, Entry("fit_cda_crr", weather, 0))
    /\ UNCHANGED <<pc, samples, measured, profile, weather, out, result>>

NextCalls ==
    \/ CallSmoothAltitude
    \/ CallComputeIndoorPower
    \/ CallComputePowerWithWind
    \/ CallFitCdaCrr

SpecCalls == InitCalls /\ [][NextCalls]_vars

\* the same calls on series that may hold a NaN altitude
InitCallsNaN == InitCallsOver(NaNAltShapes)

SpecCallsNaN == InitCallsNaN /\ [][NextCalls]_vars

----------------------------------------------------------------------------
(* physics.rs: the rolling-resistance estimate from tyre width and quality *)
(* Widths are whole millimetres, NAN or INFINITY (the f64 +infinity); the  *)
(* estimate is returned in units of 1e-5, the precision it is rounded to.  *)

\* a < b on f64: false when either side is NaN
FLt(a, b) == a # NAN /\ b # NAN /\ a < b

\* (28 / w)^0.3 in units of 1e-4 for the widths of the model; NaN gives NaN
\* and an infinite width gives 0 (physics.rs:64)
RelativeWidth(w) ==
    CASE w = NAN -> NAN
      [] w = INFINITY -> 0
      [] w = 19 -> 11234
      [] w = 20 -> 11062
      [] w = 23 -> 10608
      [] w = 25 -> 10346
      [] w = 28 -> 10000
      [] w = 40 -> 8985
      [] w = 55 -> 8167
      [] w = 1000000 -> 431

\* the factor of a quality label in units of 1e-2 (physics.rs:58-63)
quality_factor(tire_quality) ==
    CASE tire_quality = "Trening" -> 120
      [] tire_quality = "Vanlig" -> 100
      [] tire_quality = "Ritt" -> 85
      [] OTHER -> 100

\* x in units of 1e-9 rounded to dp = 5 decimals, half away from zero, in
\* units of 1e-5; NaN stays NaN (physics.rs:19-23)
round_to(x, dp) ==
    IF x = NAN THEN NAN ELSE (x + 5000) \div 10000

\* 0.005 * relative * quality_factor, rounded (physics.rs:64-66)
CrrOfWidth(w, tire_quality) ==
    LET relative == RelativeWidth(w)
        crr == IF relative = NAN THEN NAN
               ELSE 5 * relative * quality_factor(tire_quality)
    IN  round_to(crr, 5)

\* the scaling turned upside down: (w / 28)^0.3
estimate_crr_wider_higher(bike_type, tire_width_mm, tire_quality) ==
    LET w == IF FLt(tire_width_mm, 20) THEN 25 ELSE tire_width_mm
        relative == RelativeWidth(w)
        crr == IF relative = NAN THEN NAN
               ELSE IF relative = 0 THEN INFINITY
               ELSE 5 * ((10000 * 10000) \div relative)
                      * quality_factor(tire_quality)
    IN  IF crr = INFINITY THEN INFINITY ELSE round_to(crr, 5)

\* physics.rs:56-67; bike_type is not read
estimate_crr(bike_type, tire_width_mm, tire_quality) ==
    LET w == IF FLt(tire_width_mm, 20) THEN 25 ELSE tire_width_mm
    IN  CrrOfWidth(w, tire_quality)

----------------------------------------------------------------------------
(* Calls of estimate_crr: calls keeps the two latest *)

\* two of the bike types of crr_known_qualities_and_rounding
CrrBikeTypes == {"Road", "MTB"}

\* zero, below and at the guard, the tested widths, a very large width and
\* the two non-finite ones
CrrWidths ==
    {0, 8, 10, 19, 20, 23, 25, 28, 40, 55, 1000000, NAN, INFINITY}

CrrQualities == {"Trening", "Vanlig", "Ritt", "UkjentEtikett"}

CrrEntry(bt, tw, q) ==
    [op |-> "estimate_crr", bike_type |-> bt, tire_width_mm |-> tw,
     tire_quality |-> q, ret |-> estimate_crr(bt, tw, q)]

InitCrr ==
    /\ pc = "crr"
    /\ samples = <<>>
    /\ measured = <<>>
    /\ profile = DefaultProfile
    /\ weather = MkWeather(0, 0)
    /\ out = NoOutputs
    /\ result = NoResult
    /\ calls = <<>>

EstimateCrr ==
    /\ pc = "crr"
    /\ \E bt \in CrrBikeTypes, tw \in CrrWidths, q \in CrrQualities :
          calls' = IF calls = <<>> THEN <<CrrEntry(bt, tw, q)>>
                   ELSE <<calls[Len(calls)], CrrEntry(bt, tw, q)>>
    /\ UNCHANGED <<pc, samples, measured, profile, weather, out, result>>

NextCrr == EstimateCrr

SpecCrr == InitCrr /\ [][NextCrr]_vars

----------------------------------------------------------------------------
(* lib.rs: analyze_session on a watts series, a pulse series and the       *)
(* device_watts flag; pulses in beats per minute                           *)

\* the hr_only reason decided by the flag before the empty series
analyze_session_flag_first(watts, pulses, device_watts) ==
    IF pulses = <<>> \/ (watts # <<>> /\ Len(pulses) # Len(watts))
    THEN [ok |-> FALSE, mode |-> None, no_power_reason |-> None,
          avg_pulse |-> None]
    ELSE LET no_power_stream == watts = <<>>
             device_watts_false == device_watts = Some(FALSE)
             avg_pulse == Quot(SumSeq(pulses, Len(pulses)), Len(pulses))
         IN  IF no_power_stream \/ device_watts_false
             THEN [ok |-> TRUE, mode |-> Some("hr_only"),
                   no_power_reason |->
                       Some(IF device_watts_false THEN "device_watts_false"
                            ELSE "no_power_stream"),
                   avg_pulse |-> Some(avg_pulse)]
             ELSE [ok |-> TRUE, mode |-> Some("normal"),
                   no_power_reason |-> None, avg_pulse |-> Some(avg_pulse)]

\* analyze_session_core (lib.rs:47-128): Err, the hr_only fallback or the
\* normal analysis; ok = FALSE is the Err return
analyze_session_core(watts, pulses, device_watts) ==
    IF pulses = <<>> \/ (watts # <<>> /\ Len(pulses) # Len(watts))
    THEN [ok |-> FALSE, mode |-> None, no_power_reason |-> None,
          avg_pulse |-> None]
    ELSE LET no_power_stream == watts = <<>>
             device_watts_false == device_watts = Some(FALSE)
             avg_pulse == Quot(SumSeq(pulses, Len(pulses)), Len(pulses))
         IN  IF no_power_stream \/ device_watts_false
             THEN [ok |-> TRUE, mode |-> Some("hr_only"),
                   no_power_reason |->
                       Some(IF no_power_stream THEN "no_power_stream"
                            ELSE "device_watts_false"),
                   avg_pulse |-> Some(avg_pulse)]
             ELSE [ok |-> TRUE, mode |-> Some("normal"),
                   no_power_reason |-> None, avg_pulse |-> Some(avg_pulse)]

\* analyze_session_rust, exported as analyze_session (lib.rs:130-137)
analyze_session(watts, pulses, device_watts) ==
    analyze_session_core(watts, pulses, device_watts)

\* watts series up to MaxLen from the values of test_analyze_session_basic
AnalyzeWatts == SeqsUpTo({150000, 160000}, MaxLen)

\* pulse series up to MaxLen, and the series of analyzer_no_watt_hr_only
AnalyzePulses == SeqsUpTo({120, 125}, MaxLen) \cup {<<120, 125, 130>>}

AnalyzeFlags == {None, Some(TRUE), Some(FALSE)}

InitAnalyze ==
    /\ pc = "analyze"
    /\ samples = <<>>
    /\ measured = <<>>
    /\ profile = DefaultProfile
    /\ weather = MkWeather(0, 0)
    /\ out = NoOutputs
    /\ result = NoResult
    /\ calls = <<>>

\* calls keeps the latest call
AnalyzeSession ==
    /\ pc = "analyze"
    /\ \E watts \in AnalyzeWatts, pulses \in AnalyzePulses,
          device_watts \in AnalyzeFlags :
          calls' = <<[op |-> "analyze_session", watts |-> watts,
                      pulses |-> pulses, device_watts |-> device_watts,
                      ret |-> analyze_session(watts, pulses, device_watts)]>>
    /\ UNCHANGED <<pc, samples, measured, profile, weather, out, result>>

NextAnalyze == AnalyzeSession

SpecAnalyze == InitAnalyze /\ [][NextAnalyze]_vars

----------------------------------------------------------------------------
(* The along-path wind of the session analysis (analyze_session.rs) and of *)
(* the scalar metrics of the Python bridge (py/mod.rs)                     *)

\* share of the model wind that reaches the rider, in percent
WIND_EFFECT == 55

\* analyze_session.rs:22-28
norm_deg(d) == d % 360

\* wind-from bearing minus heading, folded to [-180, 180]
\* (analyze_session.rs:31-40)
relative_angle_deg(heading_deg, wind_from_dir_deg) ==
    LET delta == norm_deg(wind_from_dir_deg) - norm_deg(heading_deg)
    IN  IF delta > 180 THEN delta - 360
        ELSE IF delta < -180 THEN delta + 360
        ELSE delta

\* one element of relative_wind_series_ms (analyze_session.rs:50-54)
relative_wind_ms(heading_deg, wind_from_dir_deg, wind_speed_ms) ==
    LET rel == relative_angle_deg(heading_deg, wind_from_dir_deg)
    IN  Quot(wind_speed_ms * CosMilli(rel % 360), 1000)

\* wind_along_eff of compute_scalar_metrics: the wind along the direction of
\* travel, taken against the bearing the wind blows to, scaled by
\* WIND_EFFECT (py/mod.rs:468-489)
wind_along_eff(w, heading_deg) ==
    LET wind_ms == Max(w.wind_ms, 0)
        wind_from_deg == w.wind_dir_deg % 360
        wind_to_deg == (wind_from_deg + 180) % 360
        d0 == (wind_to_deg - heading_deg) % 360
        d == IF d0 > 180 THEN d0 - 360 ELSE d0
        wind_along == Quot(wind_ms * CosMilli(d % 360), 1000)
    IN  Quot(wind_along * WIND_EFFECT, 100)

\* v_air of compute_scalar_metrics (py/mod.rs:492)
v_air(v, w, heading_deg) == Max(v - wind_along_eff(w, heading_deg), 0)

----------------------------------------------------------------------------
(* calibration.rs and lib.rs: writing a calibration result into a Profile  *)

\* the calibrated flag kept once set
apply_calibration_sticky(p, r) ==
    [p EXCEPT !.cda = Some(r.cda),
              !.crr = Some(r.crr),
              !.calibrated = @ \/ r.calibrated,
              !.calibration_mae = Some(r.mae),
              !.estimat = IF r.calibrated THEN FALSE ELSE @]

\* apply_calibration_to_profile (calibration.rs:167-176)
apply_calibration_to_profile(p, r) ==
    [p EXCEPT !.cda = Some(r.cda),
              !.crr = Some(r.crr),
              !.calibrated = r.calibrated,
              !.calibration_mae = Some(r.mae),
              !.estimat = IF r.calibrated THEN FALSE ELSE @]

\* the thresholds of the soft heuristics (lib.rs:518-522): samples, cm/s,
\* mm, mW, mW
MIN_SAMPLES == 30

MIN_V_SPAN_MS == 100

MIN_A_SPAN_M == 3000

MIN_MEAN_W == 50000

MAX_MAE_OK == 150000

\* a >= b on f64: false when either side is NaN
FGe(a, b) == a # NAN /\ b # NAN /\ a >= b

\* the samples rust_calibrate_session builds from its three series: 1 Hz,
\* no GPS, heading 0, the watts as device_watts (lib.rs:501-512)
BridgeSamples(watts, speed_ms, altitude_m, n) ==
    Vec([i \in 1..n |->
            [MkSample((i - 1) * 1000, speed_ms[i], altitude_m[i], None, None)
                EXCEPT !.device_watts = Some(watts[i])]], n)

\* max - min of the first n values, all finite (lib.rs:526-534)
SpanOf(xs, n) ==
    LET vals == {xs[i] : i \in 1..n}
    IN  SetMax(vals) - SetMin(vals)

\* the mean of the first n watts; NaN when one of them is NaN
\* (lib.rs:536-538)
MeanWatts(watts, n) ==
    IF \E i \in 1..n : watts[i] = NAN THEN NAN
    ELSE Quot(SumSeq(SubSeq(watts, 1, n), n), n)

\* the soft-heuristics pass over the result of the fit (lib.rs:517-549)
SoftHeuristics(r, watts, speed_ms, altitude_m, n) ==
    LET n_ok == n >= MIN_SAMPLES
        v_span == SpanOf(speed_ms, n)
        a_span == SpanOf(altitude_m, n)
        w_mean == MeanWatts(watts, n)
        variation_ok == /\ v_span >= MIN_V_SPAN_MS
                        /\ a_span >= MIN_A_SPAN_M
                        /\ FGe(w_mean, MIN_MEAN_W)
        mae_ok == r.mae # NAN /\ r.mae # INFINITY /\ r.mae < MAX_MAE_OK
    IN  IF ~r.calibrated /\ n_ok /\ variation_ok /\ mae_ok
        THEN [r EXCEPT !.calibrated = TRUE,
                       !.reason = IF @ = None THEN Some("soft_ok_window") ELSE @]
        ELSE r

\* the reply of rust_calibrate_session: the profile takes the reported
\* result and is no longer an estimate (lib.rs:551-569)
BridgeReply(fit, r, p) ==
    [ok |-> TRUE, fit |-> fit, result |-> r,
     profile |-> [p EXCEPT !.cda = Some(r.cda),
                           !.crr = Some(r.crr),
                           !.calibrated = r.calibrated,
                           !.calibration_mae = Some(r.mae),
                           !.estimat = FALSE]]

\* rust_calibrate_session after the fit (lib.rs:516-571)
BridgeAfterFit(fit, watts, speed_ms, altitude_m, n, p) ==
    BridgeReply(fit, SoftHeuristics(fit, watts, speed_ms, altitude_m, n), p)

\* rust_calibrate_session (lib.rs:476-571): ok = FALSE is the Err return for
\* empty inputs; fit is what fit_cda_crr returned, result what is reported,
\* profile the profile written into the reply
rust_calibrate_session(watts, speed_ms, altitude_m, p, w) ==
    LET n == Min(Len(watts), Min(Len(speed_ms), Len(altitude_m)))
    IN  IF n = 0
        THEN [ok |-> FALSE, fit |-> NoResult, result |-> NoResult, profile |-> p]
        ELSE BridgeAfterFit(
                 fit_cda_crr(BridgeSamples(watts, speed_ms, altitude_m, n),
                             SubSeq(watts, 1, n), p, w),
                 watts, speed_ms, altitude_m, n, p)

----------------------------------------------------------------------------
(* Inputs of the profile updates: segments around the 30-sample and the    *)
(* 300-sample thresholds, and calibration results of every kind            *)

\* short series with and without speed and altitude variation, and full
\* segments
ProfileSegments ==
    {Vec(Segment(n, sp, ap, "none"), n) :
        n \in {0, 29, 30}, sp \in {"sprint", "cruise"}, ap \in {"climb", "flat"}}
    \cup {Vec(Segment(n, "ramp", ap, gp), n) :
              n \in {299, 300}, ap \in {"climb", "flat"}, gp \in {"none", "north"}}

ProfileMeasuredKinds == {<<"const", 0>>, <<"const", 310050>>, <<"nan", 5>>}

\* results of the grid search, accepted or not, and rejected results as
\* fit_cda_crr builds them (calibration.rs:66-102, 157-163)
AnyResults ==
    {[panicked |-> FALSE, cda |-> cda, crr |-> crr, mae |-> mae,
      calibrated |-> c, reason |-> None] :
        cda \in {250, 300}, crr \in {30, 80}, mae \in {2750, 40000}, c \in BOOLEAN}
    \cup {[panicked |-> FALSE, cda |-> cda, crr |-> crr, mae |-> 0,
           calibrated |-> FALSE, reason |-> Some(why)] :
              cda \in {300}, crr \in {50, 120},
              why \in {"insufficient_segment", "length_mismatch_model_vs_measured",
                       "non_finite_measured_power", "indoor_session"}}

InitProfile ==
    /\ pc = "ready"
    /\ profile \in CalibProfiles
    /\ weather \in CalibWeathers
    /\ samples \in ProfileSegments
    /\ \E kind \in ProfileMeasuredKinds :
          measured = Vec(MeasuredOf(kind, samples, profile, weather), Len(samples))
    /\ out = NoOutputs
    /\ result = NoResult
    /\ calls = <<>>

\* apply_calibration_to_profile on the result of the fit, as in
\* calibrate_and_persist (calibration.rs:187-188)
ApplyCalibration ==
    /\ pc = "fit_done"
    /\ profile' = apply_calibration_to_profile(profile, result)
    /\ pc' = "applied"
    /\ UNCHANGED <<samples, measured, weather, out, result, calls>>

\* apply_calibration_to_profile on any result, any number of times
ApplyResult ==
    /\ pc \in {"ready", "applied"}
    /\ \E r \in AnyResults :
          /\ result' = r
          /\ profile' = apply_calibration_to_profile(profile, r)
    /\ pc' = "applied"
    /\ UNCHANGED <<samples, measured, weather, out, calls>>

\* the series of one field of the samples
SpeedsOf(ss) == Vec([i \in 1..Len(ss) |-> ss[i].v_ms], Len(ss))

AltitudesOf(ss) == Vec([i \in 1..Len(ss) |-> ss[i].altitude_m], Len(ss))

\* rust_calibrate_session on the speeds and altitudes of the samples and the
\* measured watts; calls records what fit_cda_crr returned inside it
RustCalibrateSession ==
    /\ pc = "ready"
    /\ \E ret \in {rust_calibrate_session(measured, SpeedsOf(samples),
                                          AltitudesOf(samples), profile, weather)} :
          /\ pc' = IF ret.ok THEN "bridge_done" ELSE "bridge_err"
          /\ result' = IF ret.ok THEN ret.result ELSE result
          /\ profile' = ret.profile
          /\ calls' = IF ret.ok
                      THEN Append(calls, [op |-> "fit_cda_crr", ret |-> ret.fit])
                      ELSE calls
    /\ UNCHANGED <<samples, measured, weather, out>>

NextProfile ==
    \/ FitCdaCrr
    \/ ApplyCalibration
    \/ ApplyResult
    \/ RustCalibrateSession

SpecProfile == InitProfile /\ [][NextProfile]_vars

----------------------------------------------------------------------------
(* Properties of the decomposition *)

PowerDone == pc \in {"with_wind_done", "power_done"}

\* C1: every element of the power vector returned by compute_power_with_wind
\* and compute_power is finite and >= 0, whatever the signs of speed, the
\* altitude changes, the order of the timestamps and the wind.
C1_PowerNonNegative ==
    PowerDone =>
        \A i \in 1..Len(out.power) : IsFinite(out.power[i]) /\ out.power[i] >= 0

\* C1 witness: a sample that descends and decelerates on a tied timestamp
\* under wind, with its power computed
C1_Witness ==
    /\ pc = "with_wind_done"
    /\ weather.wind_ms > 0
    /\ \E i \in 2..Len(samples) :
          /\ samples[i].altitude_m < samples[i - 1].altitude_m
          /\ samples[i].v_ms < 0
          /\ samples[i - 1].v_ms > 0
          /\ samples[i].t = samples[i - 1].t
          /\ out.power[i] >= 0

\* C2: the three vectors of compute_power_with_wind, and the vector of
\* compute_power, have exactly len(samples) elements, the empty input included.
C2_OutputLengths ==
    /\ pc = "with_wind_done" =>
          /\ Len(out.power) = Len(samples)
          /\ Len(out.wind_rel) = Len(samples)
          /\ Len(out.v_rel) = Len(samples)
    /\ pc = "power_done" => Len(out.power) = Len(samples)

\* C2 witness: a non-empty series decomposed into three full vectors
C2_Witness ==
    /\ pc = "with_wind_done"
    /\ Len(samples) = 2
    /\ Len(out.power) = 2 /\ Len(out.wind_rel) = 2 /\ Len(out.v_rel) = 2

\* the decomposition of the same samples and profile under wind speed ws
WithWindSpeed(ws) ==
    compute_power_with_wind(samples, profile, [weather EXCEPT !.wind_ms = ws])

\* C9 (as claimed): for a sample ridden at positive speed straight into the
\* wind (heading equal to the wind-from bearing), a larger wind speed gives a
\* strictly larger v_rel and a strictly larger power.
C9_HeadwindRaisesAirspeed ==
    pc = "with_wind_done" =>
        \A i \in 1..Len(samples) :
            (HeadingAt(samples, i) = weather.wind_dir_deg /\ VMidAt(samples, i) > 0) =>
                LET more == WithWindSpeed(weather.wind_ms + 200)
                IN  /\ more.v_rel[i] > out.v_rel[i]
                    /\ more.power[i] > out.power[i]

C11_AirspeedFloor ==
    pc = "with_wind_done" =>
        \A i \in 1..Len(out.v_rel) : out.v_rel[i] >= 10

\* C11 (amended): every v_rel is >= 0, and it is exactly 0 when the wind
\* component equals or exceeds the mid-interval speed (a stationary rider in
\* still air included); otherwise it is v_mid - wind_rel.
C11_AirspeedNonNegative ==
    pc = "with_wind_done" =>
        \A i \in 1..Len(out.v_rel) :
            /\ out.v_rel[i] >= 0
            /\ out.wind_rel[i] >= VMidAt(samples, i) => out.v_rel[i] = 0
            /\ out.wind_rel[i] < VMidAt(samples, i) =>
                  out.v_rel[i] = VMidAt(samples, i) - out.wind_rel[i]

\* C11 witness: a moving rider whose mid-interval speed is matched by the
\* wind component, and a stationary rider under a stronger wind component
C11_Witness ==
    /\ pc = "with_wind_done"
    /\ \E i, j \in 1..Len(samples) :
          /\ VMidAt(samples, i) > 0
          /\ out.wind_rel[i] = VMidAt(samples, i)
          /\ out.v_rel[i] = 0
          /\ VMidAt(samples, j) = 0
          /\ out.wind_rel[j] > 0
          /\ out.v_rel[j] = 0

\* the decomposition of the same series with every heading_deg set to h
WithHeading(h) ==
    compute_power_with_wind([i \in 1..Len(samples) |-> [samples[i] EXCEPT !.heading_deg = h]],
                            profile, weather)

\* C12 (as claimed): the wind component of sample i is taken along the
\* sample's own heading_deg when that is finite, so under a non-zero wind two
\* series without GPS that differ only in heading_deg (0 against 90 degrees)
\* differ in wind_rel.
C12_OwnHeadingFirst ==
    (pc = "with_wind_done" /\ weather.wind_ms > 0) =>
        /\ \A i \in 1..Len(samples) :
              IsFinite(samples[i].heading_deg) =>
                  out.wind_rel[i] = headwind_component(weather, samples[i].heading_deg)
        /\ (Len(samples) > 0
             /\ \A i \in 1..Len(samples) :
                    samples[i].latitude = None /\ samples[i].longitude = None) =>
              WithHeading(90).wind_rel # out.wind_rel

\* the decomposition of the same series under air temperature temp
WithTemp(temp) ==
    compute_power_with_wind(samples, profile, [weather EXCEPT !.air_temp_c = temp])

\* C13 (as claimed): the aerodynamic term uses the density of the Weather's
\* temperature and pressure, so a Weather 20 degrees warmer, with a different
\* density inside the band, gives a different power wherever air flows.
C13_DensityFromWeather ==
    pc = "with_wind_done" =>
        LET here == air_density(weather.air_temp_c, weather.air_pressure_hpa)
            warm == air_density(weather.air_temp_c + 20, weather.air_pressure_hpa)
        IN  (here # warm /\ here \in 901..1399 /\ warm \in 901..1399) =>
                \A i \in 1..Len(samples) :
                    out.v_rel[i] > 0 =>
                        WithTemp(weather.air_temp_c + 20).power[i] # out.power[i]

\* the terms of sample i, recomputed from the inputs
TermsAt(i) ==
    PowerStep(samples, smooth_altitude(samples), UnwrapOr(profile.total_weight, 75),
              UnwrapOr(profile.crr, 50),
              IF profile.cda # None THEN profile.cda[1] ELSE cda_for(profile.bike_type),
              weather, i)

\* C14: power[i] is at least the rolling term plus the aerodynamic term; the
\* gravity term is 0 when the smoothed altitude does not rise and the
\* acceleration term is 0 when the speed does not increase, and with both at
\* 0 the power is exactly rolling plus aerodynamic.
C14_NoCreditBack ==
    pc = "with_wind_done" =>
        \A i \in 1..Len(samples) :
            LET alt == smooth_altitude(samples)
                roll == rolling_watt(UnwrapOr(profile.crr, 50),
                                     UnwrapOr(profile.total_weight, 75), VMidAt(samples, i))
                aero == drag_watt(RHO, IF profile.cda # None THEN profile.cda[1]
                                       ELSE cda_for(profile.bike_type), out.v_rel[i])
                falls == i = 1 \/ alt[i] <= alt[i - 1]
                slows == Max(samples[i].v_ms, 0) <= VPrevAt(samples, i)
            IN  /\ out.power[i] >= roll + aero
                /\ falls => TermsAt(i).p_grav = 0
                /\ slows => TermsAt(i).p_acc = 0
                /\ (falls /\ slows) => out.power[i] = roll + aero

\* C14 witness: a sample that descends and brakes while still rolling, charged
\* exactly the rolling and aerodynamic terms
C14_Witness ==
    /\ pc = "with_wind_done"
    /\ \E i \in 2..Len(samples) :
          /\ samples[i].altitude_m < samples[i - 1].altitude_m
          /\ Max(samples[i].v_ms, 0) < Max(samples[i - 1].v_ms, 0)
          /\ VMidAt(samples, i) > 0
          /\ TermsAt(i).p_roll > 0
          /\ out.power[i] = TermsAt(i).p_roll + TermsAt(i).p_aero

\* C19: at constant positive speed on flat ground without GPS, a wind of
\* wind_ms > 0 from 180 degrees gives v_rel[0] = v_mid + wind_ms, above the
\* windless v_rel[0], and a power[0] above the windless power[0].
C19_WindFromBehindRaisesAirspeed ==
    (/\ pc = "with_wind_done"
     /\ Len(samples) > 0
     /\ \A i \in 1..Len(samples) :
           /\ samples[i].v_ms = samples[1].v_ms
           /\ samples[i].altitude_m = samples[1].altitude_m
           /\ samples[i].latitude = None /\ samples[i].longitude = None
     /\ samples[1].v_ms > 0
     /\ weather.wind_ms > 0
     /\ weather.wind_dir_deg = 180) =>
        /\ out.v_rel[1] = VMidAt(samples, 1) + weather.wind_ms
        /\ out.v_rel[1] > WithWindSpeed(0).v_rel[1]
        /\ out.power[1] > WithWindSpeed(0).power[1]

\* C19 witness: two samples at 6 m/s on flat ground without GPS, wind from 180
C19_Witness ==
    /\ pc = "with_wind_done"
    /\ Len(samples) = 2
    /\ samples[1].v_ms = 600 /\ samples[2].v_ms = 600
    /\ samples[1].altitude_m = samples[2].altitude_m
    /\ \A i \in 1..2 : samples[i].latitude = None /\ samples[i].longitude = None
    /\ weather.wind_ms = 300 /\ weather.wind_dir_deg = 180
    /\ out.v_rel[1] = 900

----------------------------------------------------------------------------
(* Properties of the calibration *)

Reasons ==
    {"insufficient_segment", "length_mismatch_model_vs_measured",
     "non_finite_measured_power", "indoor_session"}

AllFinite(q) == \A i \in 1..Len(q) : IsFinite(q[i])

NoGps(ss) == \A i \in 1..Len(ss) : ss[i].latitude = None /\ ss[i].longitude = None

AltRange(ss) ==
    LET alts == {ss[i].altitude_m : i \in 1..Len(ss)}
    IN  SetMax(alts) - SetMin(alts)

\* the segment is long enough and its measured series is well-formed
WellFormed == Len(samples) >= 300 /\ Len(measured) = Len(samples) /\ AllFinite(measured)

\* the call went through the grid search and returned
GridPath == pc = "fit_done" /\ WellFormed /\ result.reason = None /\ ~result.panicked

\* C3: the rejection rules are tried in the order segment size, length
\* mismatch, non-finite measured power, indoor session, and the first that
\* matches gives the reason.
C3_RejectionOrder ==
    pc = "fit_done" =>
        /\ Len(samples) < 300 => result.reason = Some("insufficient_segment")
        /\ (Len(samples) >= 300 /\ Len(measured) # Len(samples)) =>
              result.reason = Some("length_mismatch_model_vs_measured")
        /\ (Len(samples) >= 300 /\ Len(measured) = Len(samples) /\ ~AllFinite(measured)) =>
              result.reason = Some("non_finite_measured_power")
        /\ (WellFormed /\ NoGps(samples) /\ AltRange(samples) < 500) =>
              result.reason = Some("indoor_session")

\* C3 witness: 50 samples against 40 measured values, rejected as too short
C3_Witness ==
    /\ pc = "fit_done"
    /\ Len(samples) = 50
    /\ Len(measured) = 40
    /\ result.reason = Some("insufficient_segment")

\* C4 (as claimed): every call returns a result, never panics, and a result
\* with a reason has a reason of the vocabulary, calibrated = false, mae = 0
\* and the profile's Crr (0.005 when it has none).
C4_AlwaysReturns ==
    pc = "fit_done" =>
        /\ ~result.panicked
        /\ result.reason # None =>
              /\ result.reason[1] \in Reasons
              /\ ~result.calibrated
              /\ result.mae = 0
              /\ result.crr = (IF profile.crr = None THEN 50 ELSE profile.crr[1])

\* C5: on a well-formed segment the result is indoor_session with
\* calibrated = false exactly when no sample has a coordinate and the
\* altitude range is below 0.5 m; otherwise the grid search runs and the
\* result has no reason.
C5_IndoorIff ==
    (pc = "fit_done" /\ WellFormed) =>
        LET indoor == NoGps(samples) /\ AltRange(samples) < 500
        IN  /\ indoor <=> (result.reason = Some("indoor_session") /\ ~result.calibrated)
            /\ ~indoor => result.reason = None

\* C5 witness: 300 samples without GPS whose altitude ripples by 0.499 m
C5_Witness ==
    /\ pc = "fit_done"
    /\ WellFormed
    /\ NoGps(samples)
    /\ AltRange(samples) = 499
    /\ result.reason = Some("indoor_session")
    /\ ~result.calibrated

\* the mean of the measured series
MeanMeasured == Quot(SumSeq(measured, Len(measured)), Len(measured))

\* C6: after the grid search, calibrated holds exactly when the returned MAE
\* is strictly below 10 % of the mean measured power, and no reason is given.
C6_AcceptIff ==
    GridPath =>
        /\ result.calibrated <=> (10 * result.mae < MeanMeasured)
        /\ result.reason = None

\* C6 witness: a grid search whose MAE is exactly 10 % of the mean measured
\* power, left uncalibrated
C6_Witness ==
    /\ GridPath
    /\ result.mae > 0
    /\ 10 * result.mae = MeanMeasured
    /\ ~result.calibrated

\* the MAE of candidate crr over the whole segment, with the CdA held fixed
MaeAt(crr) ==
    LET model_w == compute_power(samples, [profile EXCEPT !.crr = Some(crr),
                                           !.cda = Some(result.cda)], weather)
        err == Vec([i \in 1..Len(samples) |-> Abs(model_w[i] - measured[i])], Len(samples))
    IN  Quot(SumSeq(err, Len(samples)), Len(samples))

\* C7: after the grid search the returned crr is a grid value, its MAE is the
\* returned mae, and no grid candidate has a lower MAE.
C7_GridArgmin ==
    GridPath =>
        /\ result.crr \in {30, 40, 50, 60, 70, 80}
        /\ MaeAt(result.crr) = result.mae
        /\ \A c \in {30, 40, 50, 60, 70, 80} : MaeAt(c) >= result.mae

\* C7 witness: a starting Crr of 0.012, outside the grid, replaced by a grid
\* value with a finite MAE
C7_Witness ==
    /\ GridPath
    /\ profile.crr = Some(120)
    /\ result.crr \in {30, 40, 50, 60, 70, 80}
    /\ result.mae < INFINITY

\* C8 (as claimed): when the measured series is the model's own power at a
\* ground-truth Crr plus the +-1.5 W sawtooth, on a non-indoor segment of at
\* least 300 samples, the result has crr within 0.001 of the ground truth,
\* calibrated = true and mae below 10 % of the mean measured power.
C8_Recovery ==
    (pc = "fit_done" /\ WellFormed /\ ~(NoGps(samples) /\ AltRange(samples) < 500)) =>
        \A gt \in {55} :
            measured = NoisyModel(samples, profile, weather, gt) =>
                /\ Abs(result.crr - gt) <= 10
                /\ result.calibrated
                /\ 10 * result.mae < MeanMeasured

----------------------------------------------------------------------------
(* Properties of the calls *)

\* the calls of function op made so far
CallsOf(op) == {k \in 1..Len(calls) : calls[k].op = op}

\* the profile's mass, Crr and CdA as compute_power_with_wind reads them
MassOf(p) == UnwrapOr(p.total_weight, 75)

CrrOf(p) == UnwrapOr(p.crr, 50)

CdaOf(p) == IF p.cda # None THEN p.cda[1] ELSE cda_for(p.bike_type)

\* the scenario of C15: at least one sample, all at 10 m/s on one altitude,
\* 1 s apart, 75 kg, CdA 0.30, Crr 0.005
FlatCruise ==
    /\ Len(samples) > 0
    /\ \A i \in 1..Len(samples) :
          /\ samples[i].v_ms = 1000
          /\ samples[i].altitude_m = samples[1].altitude_m
          /\ samples[i].t = (i - 1) * 1000
    /\ MassOf(profile) = 75 /\ CrrOf(profile) = 50 /\ CdaOf(profile) = 300

\* C15: on the flat windless cruise at 10 m/s every power is the rolling term
\* 36.77 W plus the aerodynamic term 183.75 W, about 220.5 W, and the gravity
\* and acceleration terms are 0 at every index, index 0 included.
C15_FlatCruisePower ==
    \A k \in CallsOf("compute_power_with_wind") :
        (FlatCruise /\ calls[k].w.wind_ms = 0) =>
            \A i \in 1..Len(samples) :
                LET st == PowerStep(samples, smooth_altitude(samples), 75, 50, 300,
                                    calls[k].w, i)
                IN  /\ Len(calls[k].ret.power) = Len(samples)
                    /\ calls[k].ret.power[i] = st.p_roll + st.p_aero
                    /\ st.p_roll \in 36770..36780
                    /\ st.p_aero = 183750
                    /\ calls[k].ret.power[i] \in 220520..220530
                    /\ st.p_grav = 0
                    /\ st.p_acc = 0

\* C15 witness: three samples of the cruise decomposed without wind
C15_Witness ==
    /\ FlatCruise
    /\ Len(samples) = 3
    /\ \E k \in CallsOf("compute_power_with_wind") :
          /\ calls[k].w.wind_ms = 0
          /\ calls[k].ret.power = <<220524, 220524, 220524>>

\* m is a median of the window (a, b, c): one of the three with at least two
\* of them on either side of it
IsMedian(m, a, b, c) ==
    LET win == <<a, b, c>>
    IN  /\ m \in {a, b, c}
        /\ Cardinality({j \in 1..3 : win[j] <= m}) >= 2
        /\ Cardinality({j \in 1..3 : win[j] >= m}) >= 2

\* C16: smooth_altitude returns as many values as samples, value i being the
\* median of altitudes i-1, i, i+1 with the boundary value repeated at the
\* edges; a constant series comes back unchanged and a spike between two equal
\* neighbours is replaced by the neighbour value.
C16_MedianOfThree ==
    \A k \in CallsOf("smooth_altitude") :
        LET r == calls[k].ret
            n == Len(samples)
        IN  /\ ~r.panicked
            /\ Len(r.alt) = n
            /\ \A i \in 1..n :
                  IsMedian(r.alt[i],
                           samples[IF i > 1 THEN i - 1 ELSE i].altitude_m,
                           samples[i].altitude_m,
                           samples[IF i < n THEN i + 1 ELSE i].altitude_m)
            /\ (\A i \in 1..n : samples[i].altitude_m = samples[1].altitude_m) =>
                  \A i \in 1..n : r.alt[i] = samples[i].altitude_m
            /\ \A i \in 2..(n - 1) :
                  samples[i - 1].altitude_m = samples[i + 1].altitude_m =>
                      r.alt[i] = samples[i - 1].altitude_m

\* C16 witness: the spike of 9 m between neighbours at 5 m smoothed away
C16_Witness ==
    /\ Len(samples) = 5
    /\ samples[3].altitude_m = 9000
    /\ \E k \in CallsOf("smooth_altitude") :
          calls[k].ret.alt = <<5000, 5000, 5000, 5000, 5000>>

\* C17 (as claimed): no call of smooth_altitude or compute_power_with_wind
\* panics, a NaN altitude included.
C17_NeverPanics ==
    \A k \in CallsOf("smooth_altitude") \cup CallsOf("compute_power_with_wind") :
        ~calls[k].ret.panicked

C20_IndoorPower ==
    \A k \in CallsOf("compute_indoor_power") :
        LET s == samples[calls[k].i]
            v == Max(s.v_ms, 0)
            watts == calls[k].ret.watts
        IN  /\ s.device_watts # None => watts = s.device_watts[1]
            /\ s.device_watts = None =>
                  /\ watts = rolling_watt(UnwrapOr(profile.crr, 40), MassOf(profile), v)
                             + drag_watt(1225, CdaOf(profile), v)
                  /\ watts >= 0
                  /\ \A alt \in {0, 250000}, t \in {0, 7000}, h \in {0, 90},
                        g \in GpsFixes :
                        compute_indoor_power(
                            [s EXCEPT !.altitude_m = alt, !.t = t, !.heading_deg = h,
                                      !.latitude = g[1], !.longitude = g[2]],
                            profile) = watts

\* C20 witness: a negative device_watts passed through, or the model used at
\* 7 m/s with the profile of the indoor test
C20_Witness ==
    \E k \in CallsOf("compute_indoor_power") :
        \/ /\ samples[calls[k].i].device_watts = Some(-5000)
           /\ calls[k].ret.watts = -5000
        \/ /\ samples[calls[k].i].device_watts = None
           /\ samples[calls[k].i].v_ms = 700
           /\ profile.cda = Some(235)
           /\ calls[k].ret.watts > 0

----------------------------------------------------------------------------
(* Properties of the grid search order *)

\* the positions of the candidates whose MAE is the lowest of the grid
Minimisers(maes) ==
    {k \in 1..Len(maes) : \A j \in 1..Len(maes) : maes[k].mae <= maes[j].mae}

\* C24 as stated: crr, mae and calibrated are the same for every order in
\* which the six candidates are evaluated and min-reduced, ties included
C24_OrderIndependent ==
    GridPath =>
        LET maes == GridMaes(samples, measured, profile, weather, result.cda)
            avg == AvgMeasured(measured)
        IN  \A order \in GridOrders :
                GridOutcome(order, maes, avg, profile)
                    = [crr |-> result.crr, mae |-> result.mae,
                       calibrated |-> result.calibrated]

\* C24 amended: mae and calibrated are the same for every order; the crr of
\* an order is always one of the candidates with the lowest MAE, so it is the
\* same for every order when that candidate is unique; among tied candidates
\* the code's ascending scan returns the lowest Crr
C24_OrderIndependentUpToTies ==
    GridPath =>
        LET maes == GridMaes(samples, measured, profile, weather, result.cda)
            avg == AvgMeasured(measured)
            tied == {CrrGrid[k] : k \in Minimisers(maes)}
        IN  /\ result.crr \in tied
            /\ \A c \in tied : result.crr <= c
            /\ \A order \in GridOrders :
                   LET o == GridOutcome(order, maes, avg, profile)
                   IN  /\ o.mae = result.mae
                       /\ o.calibrated = result.calibrated
                       /\ o.crr \in tied

\* a ground truth of 0.0055: candidates 0.005 and 0.006 tie, the call
\* returns 0.005 and the descending order would return 0.006
C24_Witness ==
    /\ GridPath
    /\ measured = NoisyModel(samples, profile, weather, 55)
    /\ LET maes == GridMaes(samples, measured, profile, weather, result.cda)
           avg == AvgMeasured(measured)
       IN  /\ Minimisers(maes) = {3, 4}
           /\ result.crr = 50
           /\ result.calibrated
           /\ GridOutcome(<<6, 5, 4, 3, 2, 1>>, maes, avg, profile).crr = 60

----------------------------------------------------------------------------
(* Properties of the Crr estimate *)

\* a width that is neither NaN nor infinite
FiniteWidth(tw) == tw # NAN /\ tw # INFINITY

\* C21: every estimate is finite and inside 0.0005 < Crr < 0.02 (50 < ret <
\* 2000 in the 1e-5 units it is rounded to), whatever the bike type, width
\* and quality label
C21_PlausibleBand ==
    \A k \in 1..Len(calls) :
        pc = "crr" =>
            /\ calls[k].ret # NAN
            /\ 50 < calls[k].ret /\ calls[k].ret < 2000

\* C22: a width at or below 10 mm, or non-finite, gives the estimate of the
\* 28 mm reference width; every width above 10 mm is used as given
C22_GuardAt10Uses28 ==
    \A k \in 1..Len(calls) :
        pc = "crr" =>
            LET c == calls[k]
            IN  IF ~FiniteWidth(c.tire_width_mm) \/ c.tire_width_mm <= 10
                THEN c.ret = estimate_crr(c.bike_type, 28, c.tire_quality)
                ELSE c.ret = CrrOfWidth(c.tire_width_mm, c.tire_quality)

----------------------------------------------------------------------------
(* Properties of analyze_session *)

\* C23: empty watts with non-empty pulses gives Ok, hr_only, no_power_stream
\* whatever device_watts is; watts as long as pulses with device_watts =
\* Some(false) gives hr_only, device_watts_false; Err is returned only for
\* empty pulses or non-empty watts of another length than pulses
C23_HrOnlyFallback ==
    \A k \in 1..Len(calls) :
        pc = "analyze" =>
            LET c == calls[k]
                bad == c.pulses = <<>>
                       \/ (c.watts # <<>> /\ Len(c.watts) # Len(c.pulses))
            IN  /\ (c.watts = <<>> /\ c.pulses # <<>>)
                   => /\ c.ret.ok
                      /\ c.ret.mode = Some("hr_only")
                      /\ c.ret.no_power_reason = Some("no_power_stream")
                /\ (/\ c.watts # <<>>
                    /\ Len(c.watts) = Len(c.pulses)
                    /\ c.device_watts = Some(FALSE))
                   => /\ c.ret.ok
                      /\ c.ret.mode = Some("hr_only")
                      /\ c.ret.no_power_reason = Some("device_watts_false")
                /\ ~c.ret.ok <=> bad

\* no watts, three pulses and device_watts = Some(false): the empty series
\* decides the reason
C23_Witness ==
    /\ pc = "analyze"
    /\ Len(calls) = 1
    /\ calls[1].watts = <<>>
    /\ calls[1].pulses = <<120, 125, 130>>
    /\ calls[1].device_watts = Some(FALSE)
    /\ calls[1].ret.no_power_reason = Some("no_power_stream")

----------------------------------------------------------------------------
(* Properties of the wind conventions *)

Sign(x) == IF x > 0 THEN 1 ELSE IF x < 0 THEN -1 ELSE 0

\* C25: for one heading, wind-from bearing and wind speed, at a ground speed
\* above the wind speed, the along-path component of the session analysis
\* equals the one of the decomposition, and the wind moves the airspeed of
\* the bridge's scalar metrics in the direction it moves v_rel of the
\* decomposition
C25_OneWindConvention ==
    pc = "with_wind_done" =>
        \A i \in 1..Len(samples) :
            LET h == HeadingAt(samples, i)
                v == VMidAt(samples, i)
            IN  v > weather.wind_ms =>
                    /\ relative_wind_ms(h, weather.wind_dir_deg, weather.wind_ms)
                           = out.wind_rel[i]
                    /\ Sign(v_air(v, weather, h) - v) = Sign(out.v_rel[i] - v)

----------------------------------------------------------------------------
(* Properties of the profile updates *)

\* C26: no step changes the samples, the measured series or the weather; a
\* step that changes the profile leaves it as apply_calibration_to_profile
\* leaves it for the result of that step (cda, crr, calibrated and
\* calibration_mae from the result), with total_weight and bike_type as
\* they were
C26_FrameEffects ==
    [][/\ UNCHANGED <<samples, measured, weather>>
       /\ profile' # profile =>
             /\ profile' = apply_calibration_to_profile(profile, result')
             /\ profile'.total_weight = profile.total_weight
             /\ profile'.bike_type = profile.bike_type]_vars

\* C28: under apply_calibration_to_profile estimat never goes from false
\* back to true, calibrated implies not estimat, calibrated is the flag of
\* the result applied last, and a rejected result applied to a calibrated
\* profile clears calibrated and leaves calibration_mae = 0
C28_ApplySequence ==
    [][/\ ~profile.estimat => ~profile'.estimat
       /\ profile'.calibrated => ~profile'.estimat
       /\ pc' = "applied" =>
             /\ profile'.calibrated = result'.calibrated
             /\ (profile.calibrated /\ result'.reason # None) =>
                   /\ ~profile'.calibrated
                   /\ profile'.calibration_mae = Some(0)]_vars

\* a profile calibrated by an earlier result, then given a result rejected
\* as insufficient_segment
C28_Witness ==
    /\ pc = "applied"
    /\ result.reason = Some("insufficient_segment")
    /\ ~profile.calibrated
    /\ ~profile.estimat
    /\ profile.calibration_mae = Some(0)

\* C29: rust_calibrate_session reports calibrated = true only when
\* fit_cda_crr ran the grid search, that is, returned no reason
C29_SoftNeverOverridesReject ==
    (pc = "bridge_done" /\ result.calibrated) =>
        calls[Len(calls)].ret.reason = None

----------------------------------------------------------------------------
(* Properties of the CdA held fixed by the calibration *)

\* C30: after the grid search the CdA reported by fit_cda_crr is the CdA the
\* decomposition uses for the profile, and the model power of every grid
\* candidate c is compute_power for the profile with crr = c
C30_SameCdaAsDecomposition ==
    GridPath =>
        /\ result.cda = CdaOf(profile)
        /\ \A k \in 1..Len(CrrGrid) :
               compute_power(samples,
                             CandidateProfile(profile, result.cda, CrrGrid[k]),
                             weather)
                   = compute_power(samples,
                                   [profile EXCEPT !.crr = Some(CrrGrid[k])],
                                   weather)

====
